---- MODULE Spec2Model ----
(***************************************************************************)
(* A model of the easyReview backend: the Review Store (Django models),    *)
(* dataset ingestion (handlers/fetch.py), the field counter                *)
(* (handlers/review.py) and the open-fields reconciler                     *)
(* (handlers/openfields.py).                                               *)
(***************************************************************************)
EXTENDS Integers, Sequences, FiniteSets, TLC

(* ------------------------------------------------------------------ *)
(* Bounds of the model                                                 *)
(* ------------------------------------------------------------------ *)

\* most repeated values of one block: the elements of its repeatable
\* primitive plus the entries of its repeatable compound
MaxRepeated == 2

\* most fields of a pydantic object handed to _is_empty on its own
MaxFields == 2

\* most Field rows whose acceptance flag reviewers have set
MaxDecided == 2

\* most entries of one remote schema: its fields plus their child fields
MaxSchemaEntries == 3

(* ------------------------------------------------------------------ *)
(* Python values                                                       *)
(* ------------------------------------------------------------------ *)

\* Python's None as a metadata value
PyNone == [t |-> "none", v |-> ""]

\* a Python str
PyS(s) == [t |-> "str", v |-> s]

\* a Python int; v holds its decimal digits
PyI(digits) == [t |-> "int", v |-> digits]

\* a Python list
PyL(elems) == [t |-> "list", v |-> elems]

\* a pydantic object (a block or a compound entry): it has model_fields
PyNode(flds) == [t |-> "node", v |-> flds]

\* one (field_name, value) pair of a pydantic object, with the parts of
\* model_fields[field_name] the handlers read
PyField(name, typeClass, multiple, value) ==
    [name |-> name, typeClass |-> typeClass, multiple |-> multiple,
     description |-> "about " \o name, value |-> value]

\* a missing query parameter (request.query_params.get gives None)
Absent == "<absent>"

\* the null foreign key, and the id no row has
NoId == 0

SeqsUpTo(S, n) == UNION {[1..k -> S] : k \in 0..n}

\* str(value) of a scalar
str(value) ==
    CASE value.t = "none" -> "None"
      [] value.t = "str" -> value.v
      [] value.t = "int" -> value.v
      [] OTHER -> "<object>"

\* ", ".join(elems) for a list of str
RECURSIVE join(_)
join(elems) ==
    IF Len(elems) = 0 THEN ""
    ELSE IF Len(elems) = 1 THEN elems[1].v
    ELSE elems[1].v \o ", " \o join(Tail(elems))

\* str.join raises TypeError on an element that is no str
JoinRaises(elems) == \E i \in 1..Len(elems) : elems[i].t # "str"

\* field_name.startswith("_")
StartsWithUnderscore(name) == name \in {"_id", "_changed"}

(* ------------------------------------------------------------------ *)
(* What the Dataverse installation can hold                            *)
(* ------------------------------------------------------------------ *)

DOIs == {"doi:10/A", "doi:10/B"}

SiteUrls == {"https://dv.org", "https://dv.org/"}

\* values of a single primitive field
Scalars == {PyNone, PyS("a"), PyI("7")}

\* values of a repeatable primitive field
Lists == {PyL(s) : s \in SeqsUpTo({PyS("a"), PyI("7")}, MaxRepeated)}

\* values of a primitive field inside a compound
SubValues == {PyNone, PyS("a")}

\* the entries of the repeatable compound "author"
AuthorEntries ==
    {PyNode(<<PyField("authorName", "primitive", FALSE, n),
              PyField("authorAffiliation", "primitive", FALSE, a)>>) :
        n \in SubValues, a \in SubValues}

\* values of the single compound "box"
Boxes ==
    {PyNone} \cup
    {PyNode(<<PyField("north", "primitive", FALSE, n)>>) : n \in SubValues}

\* values of the repeatable compound "author"
Authors == {PyL(s) : s \in SeqsUpTo(AuthorEntries, MaxRepeated)}

CitationBlocks ==
    {[name |-> "citation",
      block |-> PyNode(<<PyField("title", "primitive", FALSE, c[1]),
                         PyField("keyword", "primitive", TRUE, c[2]),
                         PyField("author", "compound", TRUE, c[3])>>)] :
        c \in {x \in Scalars \X Lists \X Authors :
                  Len(x[2].v) + Len(x[3].v) <= MaxRepeated}}

GeoBlocks ==
    {[name |-> "geospatial",
      block |-> PyNode(<<PyField("box", "compound", FALSE, b)>>)] :
        b \in Boxes}

\* dataset.metadatablocks.items() of the datasets load_dataset can return
Datasets == {<<c, g>> : c \in CitationBlocks, g \in GeoBlocks}

\* load_dataset raises: the installation has no dataset of that DOI
NoDataset == <<>>

(* ------------------------------------------------------------------ *)
(* Emptiness Filter                                                    *)
(* ------------------------------------------------------------------ *)

\* all([...]) over a list of booleans
RECURSIVE all(_)
all(bools) ==
    IF Len(bools) = 0 THEN TRUE ELSE bools[1] /\ all(Tail(bools))

RECURSIVE _is_empty(_)

\* the loop of _is_empty without its early return: the last field decides
RECURSIVE is_empty_loop_last_wins(_, _, _)
is_empty_loop_last_wins(flds, i, empty) ==
    IF i > Len(flds) THEN empty
    ELSE
        LET f == flds[i]
            is_multiple == f.multiple
            is_compound == f.typeClass = "compound"
            e == IF is_compound /\ is_multiple
                    THEN all([k \in 1..Len(f.value.v) |-> _is_empty(f.value.v[k])])
                 ELSE IF is_compound THEN _is_empty(f.value)
                 ELSE IF is_multiple
                    THEN all([k \in 1..Len(f.value.v) |-> f.value.v[k].t = "none"])
                 ELSE f.value.t = "none"
        IN  is_empty_loop_last_wins(flds, i + 1, e)

\* the for loop of _is_empty from field i on, `empty` as the loop left it
RECURSIVE is_empty_loop(_, _, _)
is_empty_loop(flds, i, empty) ==
    IF i > Len(flds) THEN empty
    ELSE
        LET f == flds[i]
            is_multiple == f.multiple
            is_compound == f.typeClass = "compound"
            e == IF is_compound /\ is_multiple
                    THEN all([k \in 1..Len(f.value.v) |-> _is_empty(f.value.v[k])])
                 ELSE IF is_compound THEN _is_empty(f.value)
                 ELSE IF is_multiple
                    THEN all([k \in 1..Len(f.value.v) |-> f.value.v[k].t = "none"])
                 ELSE f.value.t = "none"
        IN  IF e = FALSE THEN e ELSE is_empty_loop(flds, i + 1, e)

_is_empty(metadatablock) ==
    IF metadatablock.t # "node" THEN TRUE
    ELSE is_empty_loop(metadatablock.v, 1, TRUE)

(* ------------------------------------------------------------------ *)
(* State                                                               *)
(* ------------------------------------------------------------------ *)

VARIABLES
    reviews,         \* the Review table, in insertion order
    metadatablocks,  \* the Metadatablock table
    compounds,       \* the Compound table
    fields,          \* the Field table
    nextId,          \* the next fresh primary key (uuid4 never repeats)
    remote,          \* DOI -> the dataset the installation holds
    request,         \* the request handled last
    response,        \* the response to it
    outbound,        \* the remote schema URLs that request fetched, in order
    schemas,         \* block name -> the installation's answer for its schema
    checked,         \* a pydantic object handed to _is_empty
    verdict,         \* what _is_empty returned for it
    files,           \* the File table
    messages,        \* the Message table
    pending,         \* the fetch-dataset requests being handled, by thread
    job              \* the two workers of one block's open-fields processing

store == <<reviews, metadatablocks, compounds, fields, nextId, files,
           messages>>

\* the requests and workers in flight
tasks == <<pending, job>>

vars == <<reviews, metadatablocks, compounds, fields, nextId, remote,
          request, response, outbound, schemas, checked, verdict, files,
          messages, pending, job>>

\* the threads of the server that handle fetch-dataset requests
Handlers == {"h1", "h2"}

\* no fetch-dataset request is being handled
NoPending ==
    [h \in Handlers |-> [pc |-> "idle", site_url |-> Absent, doi |-> Absent]]

\* a worker of the ThreadPoolExecutor that was not submitted yet
IdleWorker == [pc |-> "idle", i |-> 1, child_field_names |-> {}, out |-> <<>>]

\* no block is being processed
NoJob ==
    [pc |-> "none", name |-> "", fields |-> <<>>,
     primitives |-> IdleWorker, compounds |-> IdleWorker,
     primitives_result |-> <<>>, compounds_result |-> <<>>,
     result |-> [name |-> "", primitives |-> <<>>, compounds |-> <<>>]]

NotCalled == "not called"

NoRequest ==
    [op |-> "none", site_url |-> Absent, doi |-> Absent, id |-> NoId]

\* a Response: status, and the parts of the body the endpoints return
Response(status, id, field_count, accpected_count, data) ==
    [status |-> status, id |-> id, field_count |-> field_count,
     accpected_count |-> accpected_count, data |-> data]

NoResponse == Response(0, NoId, 0, 0, <<>>)

(* ------------------------------------------------------------------ *)
(* Tree Flattener                                                      *)
(* ------------------------------------------------------------------ *)

\* the tables while a request is being handled; raised: an exception left
\* the handler
Db ==
    [reviews |-> reviews, metadatablocks |-> metadatablocks,
     compounds |-> compounds, fields |-> fields, nextId |-> nextId,
     raised |-> FALSE]

\* _create_and_save(model=Review, ...)
create_review(db, doi, site_url) ==
    [db EXCEPT !.reviews = Append(@, [id |-> db.nextId, reviewer |-> NoId,
                                      doi |-> doi, site_url |-> site_url,
                                      revision |-> 1, accepted |-> FALSE]),
               !.nextId = @ + 1]

\* _create_and_save(model=Metadatablock, ...)
create_metadatablock(db, review, name) ==
    [db EXCEPT !.metadatablocks = Append(@, [id |-> db.nextId,
                                             review |-> review, name |-> name]),
               !.nextId = @ + 1]

\* _create_and_save(model=Compound, ...)
create_compound(db, metadatablock, name) ==
    [db EXCEPT !.compounds = Append(@, [id |-> db.nextId,
                                        metadatablock |-> metadatablock,
                                        name |-> name, accepted |-> FALSE]),
               !.nextId = @ + 1]

\* _create_and_save(model=Field, ...)
create_field(db, metadatablock, compound, attrs) ==
    [db EXCEPT !.fields = Append(@, [id |-> db.nextId,
                                     metadatablock |-> metadatablock,
                                     compound |-> compound,
                                     name |-> attrs.name,
                                     description |-> attrs.description,
                                     accepted |-> "null",
                                     value |-> attrs.value,
                                     history |-> attrs.history]),
               !.nextId = @ + 1]

\* whether _process_primitive raises (", ".join of a list with a non-str)
process_primitive_raises(value) ==
    value.t = "list" /\ JoinRaises(value.v)

\* _process_primitive seeding the history before the list is joined
process_primitive_history_first(name, value, field_info) ==
    LET joined == IF value.t = "list" THEN PyS(join(value.v)) ELSE value
    IN  [name |-> name,
         description |-> field_info.description,
         value |-> str(joined),
         history |-> [Original |-> str(value)]]

\* the attributes _process_primitive returns
_process_primitive(name, value, field_info) ==
    LET joined == IF value.t = "list" THEN PyS(join(value.v)) ELSE value
    IN  [name |-> name,
         description |-> field_info.description,
         value |-> str(joined),
         history |-> [Original |-> str(joined)]]

\* the loop of _process_compound without the test for None: a Field row
\* for every sub-field
RECURSIVE process_compound_keeping_nulls(_, _, _, _)
process_compound_keeping_nulls(flds, i, foreign_key, db) ==
    IF i > Len(flds) \/ db.raised THEN db
    ELSE
        LET f == flds[i] IN
        IF StartsWithUnderscore(f.name)
            THEN process_compound_keeping_nulls(flds, i + 1, foreign_key, db)
        ELSE process_compound_keeping_nulls(flds, i + 1, foreign_key,
                 create_field(db, NoId, foreign_key,
                              _process_primitive(f.name, f.value, f)))

\* the for loop of _process_compound from sub-field i on
RECURSIVE _process_compound(_, _, _, _)
_process_compound(flds, i, foreign_key, db) ==
    IF i > Len(flds) \/ db.raised THEN db
    ELSE
        LET f == flds[i] IN
        IF StartsWithUnderscore(f.name) \/ f.value.t = "none"
            THEN _process_compound(flds, i + 1, foreign_key, db)
        ELSE IF process_primitive_raises(f.value)
            THEN [db EXCEPT !.raised = TRUE]
        ELSE _process_compound(flds, i + 1, foreign_key,
                 create_field(db, NoId, foreign_key,
                              _process_primitive(f.name, f.value, f)))

\* the loop over the entries creating no row for them
process_entries_dropped(entries, k, name, foreign_key, db) ==
    db

\* the loop over the entries of one compound field, from entry k on
RECURSIVE process_entries(_, _, _, _, _)
process_entries(entries, k, name, foreign_key, db) ==
    IF k > Len(entries) \/ db.raised THEN db
    ELSE
        LET withCompound == create_compound(db, foreign_key, name)
        IN  process_entries(entries, k + 1, name, foreign_key,
                _process_compound(entries[k].v, 1, db.nextId, withCompound))

\* the for loop of _process_metadatablock from field i on
RECURSIVE _process_metadatablock(_, _, _, _)
_process_metadatablock(flds, i, foreign_key, db) ==
    IF i > Len(flds) \/ db.raised THEN db
    ELSE
        LET f == flds[i] IN
        IF StartsWithUnderscore(f.name) \/ f.value.t = "none"
           \/ f.value = PyL(<<>>)
            THEN _process_metadatablock(flds, i + 1, foreign_key, db)
        ELSE IF f.typeClass # "compound"
            THEN IF process_primitive_raises(f.value)
                    THEN [db EXCEPT !.raised = TRUE]
                 ELSE _process_metadatablock(flds, i + 1, foreign_key,
                          create_field(db, foreign_key, NoId,
                                       _process_primitive(f.name, f.value, f)))
        ELSE
            LET value == IF f.value.t # "list" THEN <<f.value>> ELSE f.value.v
            IN  _process_metadatablock(flds, i + 1, foreign_key,
                    process_entries(value, 1, f.name, foreign_key, db))

\* the loop of fetch_dataset without its _is_empty test
RECURSIVE ingest_blocks_unfiltered(_, _, _, _)
ingest_blocks_unfiltered(dataset, b, review, db) ==
    IF b > Len(dataset) \/ db.raised THEN db
    ELSE
        LET withBlock == create_metadatablock(db, review, dataset[b].name)
        IN  ingest_blocks_unfiltered(dataset, b + 1, review,
                _process_metadatablock(dataset[b].block.v, 1, db.nextId,
                                       withBlock))

\* the loop of fetch_dataset over dataset.metadatablocks.items(), from
\* block b on
RECURSIVE ingest_blocks(_, _, _, _)
ingest_blocks(dataset, b, review, db) ==
    IF b > Len(dataset) \/ db.raised THEN db
    ELSE IF _is_empty(dataset[b].block)
        THEN ingest_blocks(dataset, b + 1, review, db)
    ELSE
        LET withBlock == create_metadatablock(db, review, dataset[b].name)
        IN  ingest_blocks(dataset, b + 1, review,
                _process_metadatablock(dataset[b].block.v, 1, db.nextId,
                                       withBlock))

(* ------------------------------------------------------------------ *)
(* fetch-dataset                                                       *)
(* ------------------------------------------------------------------ *)

\* the lookup filtering on the wrong column: Review.objects.filter(site_url=doi)
reviews_by_site_url(doi) ==
    SelectSeq(reviews, LAMBDA r : r.site_url = doi)

\* Review.objects.filter(doi=doi)
reviews_by_doi(doi) ==
    SelectSeq(reviews, LAMBDA r : r.doi = doi)

\* the early return for a DOI that has a Review: Review.objects.get(doi=doi)
\* raises MultipleObjectsReturned unless exactly one row matches
existing_review(doi) ==
    IF Len(reviews_by_doi(doi)) = 1
        THEN [db |-> Db,
              response |-> Response(200, reviews_by_doi(doi)[1].id, 0, 0, <<>>)]
    ELSE [db |-> [Db EXCEPT !.raised = TRUE],
          response |-> Response(500, NoId, 0, 0, <<>>)]

\* the ingestion wrapped in transaction.atomic(): a failure leaves the
\* tables as they were
ingest_dataset_rolled_back(site_url, doi) ==
    IF remote[doi] = NoDataset
        THEN [db |-> [Db EXCEPT !.raised = TRUE],
              response |-> Response(500, NoId, 0, 0, <<>>)]
    ELSE
        LET withReview == create_review(Db, doi, site_url)
            done == ingest_blocks(remote[doi], 1, nextId, withReview)
        IN  IF done.raised
                THEN [db |-> [Db EXCEPT !.raised = TRUE],
                      response |-> Response(500, NoId, 0, 0, <<>>)]
            ELSE [db |-> done, response |-> Response(200, nextId, 0, 0, <<>>)]

\* load_dataset, the Review row, and the loop over the blocks
ingest_dataset(site_url, doi) ==
    IF remote[doi] = NoDataset
        THEN [db |-> [Db EXCEPT !.raised = TRUE],
              response |-> Response(500, NoId, 0, 0, <<>>)]
    ELSE
        LET withReview == create_review(Db, doi, site_url)
            done == ingest_blocks(remote[doi], 1, nextId, withReview)
        IN  [db |-> done,
             response |-> IF done.raised
                             THEN Response(500, NoId, 0, 0, <<>>)
                          ELSE Response(200, nextId, 0, 0, <<>>)]

\* fetch_dataset validating its parameters only after the Review row is saved
fetch_dataset_validating_late(site_url, doi) ==
    IF site_url = Absent \/ doi = Absent
        THEN [db |-> create_review(Db, doi, site_url),
              response |-> Response(400, NoId, 0, 0, <<>>)]
    ELSE IF Len(reviews_by_doi(doi)) > 0
        THEN existing_review(doi)
    ELSE ingest_dataset(site_url, doi)

\* the tables and the response fetch_dataset leaves
fetch_dataset(site_url, doi) ==
    IF site_url = Absent \/ doi = Absent
        THEN [db |-> Db, response |-> Response(400, NoId, 0, 0, <<>>)]
    ELSE IF Len(reviews_by_doi(doi)) > 0
        THEN existing_review(doi)
    ELSE ingest_dataset(site_url, doi)

\* POST fetch-dataset
FetchDataset(site_url, doi) ==
    LET out == fetch_dataset(site_url, doi) IN
    /\ reviews' = out.db.reviews
    /\ metadatablocks' = out.db.metadatablocks
    /\ compounds' = out.db.compounds
    /\ fields' = out.db.fields
    /\ nextId' = out.db.nextId
    /\ request' = [op |-> "fetch", site_url |-> site_url, doi |-> doi,
                   id |-> NoId]
    /\ response' = out.response
    /\ outbound' = <<>>
    /\ UNCHANGED <<remote, schemas, checked, verdict, files, messages, tasks>>

\* the datasets the second DOI can hold: a title and nothing else
SmallDatasets ==
    {ds \in Datasets :
        /\ ds[1].block.v[1].value = PyS("a")
        /\ ds[1].block.v[2].value = PyL(<<>>)
        /\ ds[1].block.v[3].value = PyL(<<>>)
        /\ ds[2].block.v[1].value = PyNone}

Init ==
    /\ reviews = <<>>
    /\ metadatablocks = <<>>
    /\ compounds = <<>>
    /\ fields = <<>>
    /\ files = <<>>
    /\ messages = <<>>
    /\ pending = NoPending
    /\ job = NoJob
    /\ nextId = 1
    /\ remote \in {r \in [DOIs -> Datasets \cup {NoDataset}] :
                      r["doi:10/B"] \in SmallDatasets \cup {NoDataset}}
    /\ request = NoRequest
    /\ response = NoResponse
    /\ outbound = <<>>
    /\ schemas = <<>>
    /\ checked = PyNone
    /\ verdict = NotCalled

Next ==
    \E site_url \in {"https://dv.org/", Absent}, doi \in DOIs \cup {Absent} :
        FetchDataset(site_url, doi)

Spec == Init /\ [][Next]_vars

(* ------------------------------------------------------------------ *)
(* Reading the store                                                   *)
(* ------------------------------------------------------------------ *)

\* review.metadatablocks.all()
blocks_of_review(review) ==
    SelectSeq(metadatablocks, LAMBDA m : m.review = review)

\* metadatablock.primitives.all()
primitives_of_block(metadatablock) ==
    SelectSeq(fields, LAMBDA f : f.metadatablock = metadatablock)

\* metadatablock.compounds.all()
compounds_of_block(metadatablock) ==
    SelectSeq(compounds, LAMBDA c : c.metadatablock = metadatablock)

\* compound.primitives.all()
primitives_of_compound(compound) ==
    SelectSeq(fields, LAMBDA f : f.compound = compound)

Names(rows) == [i \in 1..Len(rows) |-> rows[i].name]

Range(seq) == {seq[i] : i \in 1..Len(seq)}

(* ------------------------------------------------------------------ *)
(* Claims about ingestion                                              *)
(* ------------------------------------------------------------------ *)

\* the request handled in this step is a well-formed fetch-dataset of doi
FetchOf(doi) ==
    /\ request'.op = "fetch"
    /\ request'.site_url # Absent
    /\ request'.doi = doi

\* C1: once a Review of DOI d is in the store, a fetch-dataset of d leaves
\* every table as it was and answers 200 with the id of that Review; and
\* the fetch that ingested d answered with the id of that same, only,
\* Review of d.
C1_RefetchReturnsSameReview ==
    [][\A d \in DOIs :
          FetchOf(d) =>
            IF \E r \in Range(reviews) : r.doi = d
                THEN /\ store' = store
                     /\ response'.status = 200
                     /\ \E r \in Range(reviews) :
                            r.doi = d /\ r.id = response'.id
            ELSE /\ Cardinality({i \in 1..Len(reviews') :
                                    reviews'[i].doi = d}) <= 1
                 /\ response'.status = 200 =>
                        \E r \in Range(reviews') :
                            r.doi = d /\ r.id = response'.id]_vars

\* a re-fetch of the first DOI after the second was ingested
C1_Witness ==
    /\ Len(reviews) = 2
    /\ Len(metadatablocks) >= 2
    /\ request.op = "fetch"
    /\ request.doi = reviews[1].doi
    /\ response.status = 200
    /\ response.id = reviews[1].id

SourceBlocks(review) == remote[review.doi]

\* C3: a block of the ingested dataset that _is_empty calls empty has no
\* Metadatablock row; every Metadatablock row is the only row of a block
\* _is_empty calls non-empty, and every Compound and Field row hangs under
\* such a row.
C3_EmptyBlockNotPersisted ==
    /\ \A r \in Range(reviews) :
         /\ \A b \in Range(SourceBlocks(r)) :
               _is_empty(b.block) =>
                 ~ \E m \in Range(metadatablocks) :
                       m.review = r.id /\ m.name = b.name
         /\ \A i, j \in 1..Len(metadatablocks) :
               (metadatablocks[i].review = r.id
                /\ metadatablocks[j].review = r.id
                /\ metadatablocks[i].name = metadatablocks[j].name) => i = j
    /\ \A m \in Range(metadatablocks) :
          \E r \in Range(reviews) :
              /\ m.review = r.id
              /\ \E b \in Range(SourceBlocks(r)) :
                     b.name = m.name /\ ~ _is_empty(b.block)
    /\ \A c \in Range(compounds) :
          \E m \in Range(metadatablocks) : c.metadatablock = m.id
    /\ \A f \in Range(fields) :
          \/ \E m \in Range(metadatablocks) : f.metadatablock = m.id
          \/ \E c \in Range(compounds) : f.compound = c.id

\* a Review ingested from a dataset with an empty and a persisted block
C3_Witness ==
    \E r \in Range(reviews) :
        /\ \E b \in Range(SourceBlocks(r)) :
              /\ _is_empty(b.block)
              /\ \E k \in 1..Len(b.block.v) :
                     b.block.v[k].value = PyL(<<PyNode(<<
                         PyField("authorName", "primitive", FALSE, PyNone),
                         PyField("authorAffiliation", "primitive", FALSE,
                                 PyNone)>>)>>)
        /\ Len(blocks_of_review(r.id)) = 1
        /\ response.status = 200

\* the fields of a block that _process_metadatablock stores as Field rows
\* of the Metadatablock: non-compound, value neither None nor []
StoredPrimitives(block) ==
    SelectSeq(block.v, LAMBDA f : /\ f.typeClass # "compound"
                                  /\ f.value.t # "none"
                                  /\ f.value # PyL(<<>>))

\* the block has a primitive field with a non-null value
HasNonNullPrimitive(block) ==
    \E k \in 1..Len(block.v) :
        /\ block.v[k].typeClass # "compound"
        /\ \/ block.v[k].value.t \in {"str", "int"}
           \/ /\ block.v[k].value.t = "list"
              /\ \E e \in Range(block.v[k].value.v) : e.t # "none"

\* C4: every block of an ingested dataset that has a non-null primitive
\* value has a Metadatablock row, and the Field rows directly under that row
\* are, in order, the block's non-compound fields whose value is neither
\* None nor [].
C4_NonNullBlockPersisted ==
    \A r \in Range(reviews) :
        \A b \in Range(SourceBlocks(r)) :
            HasNonNullPrimitive(b.block) =>
                \E m \in Range(metadatablocks) :
                    /\ m.review = r.id
                    /\ m.name = b.name
                    /\ Names(primitives_of_block(m.id))
                         = Names(StoredPrimitives(b.block))

\* the string a Field row holds for a source value
StoredValue(value) ==
    IF value.t = "list" THEN join(value.v) ELSE str(value)

\* the source field of that name in a pydantic object
SourceField(node, name) ==
    CHOOSE f \in Range(node.v) : f.name = name

\* the entries of a compound field, as a list
EntriesOf(f) == IF f.value.t = "list" THEN f.value.v ELSE <<f.value>>

\* C6: every Field row holds history = {"Original": value}, and its value is
\* the source value's elements joined with ", " for a list and str(value)
\* otherwise: for the Fields of a Metadatablock, and for the Fields of the
\* k-th Compound row of a name, made from the k-th entry of that compound.
C6_HistorySeededWithStoredValue ==
    /\ \A f \in Range(fields) :
          /\ DOMAIN f.history = {"Original"}
          /\ f.history.Original = f.value
    /\ \A r \in Range(reviews) :
          \A m \in Range(blocks_of_review(r.id)) :
              \E b \in Range(SourceBlocks(r)) :
                  /\ b.name = m.name
                  /\ \A f \in Range(primitives_of_block(m.id)) :
                        /\ \E s \in Range(b.block.v) : s.name = f.name
                        /\ SourceField(b.block, f.name).typeClass # "compound"
                        /\ f.value
                             = StoredValue(SourceField(b.block, f.name).value)
                  /\ \A s \in Range(b.block.v) :
                        LET rows == SelectSeq(compounds_of_block(m.id),
                                              LAMBDA c : c.name = s.name)
                        IN  /\ s.typeClass # "compound" => rows = <<>>
                            /\ s.typeClass = "compound" =>
                                 /\ Len(rows) <= Len(EntriesOf(s))
                                 /\ \A k \in 1..Len(rows) :
                                      \A f \in Range(primitives_of_compound(
                                                         rows[k].id)) :
                                          /\ \E e \in Range(EntriesOf(s)[k].v) :
                                                 e.name = f.name
                                          /\ f.value = StoredValue(
                                                 SourceField(EntriesOf(s)[k],
                                                             f.name).value)

\* a Field of a Metadatablock made from a two-element list, a Field made
\* from an int, and a Field of a Compound
C6_Witness ==
    /\ \E f \in Range(fields) :
          f.metadatablock # NoId /\ f.value = "a, a"
             /\ f.history = [Original |-> "a, a"]
    /\ \E f \in Range(fields) : f.metadatablock # NoId /\ f.value = "7"
    /\ \E f \in Range(fields) : f.compound # NoId /\ f.value = "a"

(* ------------------------------------------------------------------ *)
(* The Emptiness Filter on its own                                     *)
(* ------------------------------------------------------------------ *)

\* compound entries with one or two primitive sub-fields
InnerNodes ==
    {PyNode(<<PyField("north", "primitive", FALSE, PyNone)>>),
     PyNode(<<PyField("north", "primitive", FALSE, PyS("a"))>>),
     PyNode(<<PyField("north", "primitive", FALSE, PyS("a")),
              PyField("south", "primitive", FALSE, PyNone)>>)}

\* compound values met once: None, an object without fields, and compounds
\* holding a compound
DeepNodes ==
    {PyNone,
     PyNode(<<>>),
     PyNode(<<PyField("inner", "compound", FALSE, PyNone)>>),
     PyNode(<<PyField("inner", "compound", FALSE,
                      PyNode(<<PyField("north", "primitive", FALSE,
                                       PyS("a"))>>))>>)}

\* the fields of the four kinds _is_empty tells apart
CheckedFields ==
    {PyField("p", "primitive", FALSE, x) : x \in {PyNone, PyS("a")}}
    \cup {PyField("ps", "primitive", TRUE, PyL(x)) :
             x \in SeqsUpTo({PyNone, PyS("a")}, MaxRepeated)}
    \cup {PyField("c", "compound", FALSE, x) : x \in InnerNodes \cup DeepNodes}
    \cup {PyField("cs", "compound", TRUE, PyL(x)) :
             x \in SeqsUpTo(InnerNodes, MaxRepeated)}

\* the objects handed to _is_empty
CheckedNodes == {PyNode(x) : x \in SeqsUpTo(CheckedFields, MaxFields)}

\* Python's repr of a bool
PyBool(b) == IF b THEN "True" ELSE "False"

\* a call of _is_empty
IsEmptyCall ==
    /\ verdict = NotCalled
    /\ verdict' = PyBool(_is_empty(checked))
    /\ UNCHANGED <<store, remote, request, response, outbound, schemas,
                   checked, tasks>>

InitEmpty ==
    /\ reviews = <<>>
    /\ metadatablocks = <<>>
    /\ compounds = <<>>
    /\ fields = <<>>
    /\ files = <<>>
    /\ messages = <<>>
    /\ pending = NoPending
    /\ job = NoJob
    /\ nextId = 1
    /\ remote = [d \in DOIs |-> NoDataset]
    /\ request = NoRequest
    /\ response = NoResponse
    /\ outbound = <<>>
    /\ schemas = <<>>
    /\ checked \in CheckedNodes
    /\ verdict = NotCalled

NextEmpty == IsEmptyCall

SpecEmpty == InitEmpty /\ [][NextEmpty]_vars

\* no leaf value reachable from a value is non-null
RECURSIVE NoLeaf(_)
NoLeaf(value) ==
    CASE value.t = "none" -> TRUE
      [] value.t = "list" -> \A k \in 1..Len(value.v) : NoLeaf(value.v[k])
      [] value.t = "node" -> \A k \in 1..Len(value.v) : NoLeaf(value.v[k].value)
      [] OTHER -> FALSE

\* C5: _is_empty returns True exactly when no leaf value reachable from the
\* object is non-null; so the verdict of the last field, returned when the
\* loop runs out, is the conjunction of all fields' verdicts, and an object
\* without fields is empty.
C5_EmptyIffNoLeaf ==
    verdict # NotCalled =>
        /\ verdict = PyBool(NoLeaf(checked))
        /\ verdict = PyBool(\A k \in 1..Len(checked.v) :
                               NoLeaf(checked.v[k].value))
        /\ Len(checked.v) = 0 => verdict = "True"

\* the loop ran out after a first field with an empty repeatable compound
\* and a last field that is a null primitive
C5_Witness ==
    /\ verdict = "True"
    /\ Len(checked.v) = 2
    /\ checked.v[1].typeClass = "compound"
    /\ checked.v[1].multiple
    /\ Len(checked.v[1].value.v) = 2
    /\ checked.v[2].typeClass = "primitive"

(* ------------------------------------------------------------------ *)
(* field-count-by-review-id                                            *)
(* ------------------------------------------------------------------ *)

RECURSIVE Flatten(_)
Flatten(lists) ==
    IF Len(lists) = 0 THEN <<>> ELSE lists[1] \o Flatten(Tail(lists))

\* the LEFT OUTER JOIN values_list makes along a reverse relation: a row
\* without related rows yields one NULL
OrNull(values) == IF Len(values) = 0 THEN <<"null">> ELSE values

Accepted(rows) == [i \in 1..Len(rows) |-> rows[i].accepted]

\* Review.objects.filter(pk=review_id)
reviews_by_pk(review_id) ==
    SelectSeq(reviews, LAMBDA r : r.id = review_id)

\* values_list("metadatablocks__primitives__accepted", flat=True)
primitive_fields(review_id) ==
    LET perBlock(m) == OrNull(Accepted(primitives_of_block(m.id)))
        perReview(r) ==
            LET blocks == blocks_of_review(r.id)
            IN  OrNull(Flatten([b \in 1..Len(blocks) |-> perBlock(blocks[b])]))
        matched == reviews_by_pk(review_id)
    IN  Flatten([i \in 1..Len(matched) |-> perReview(matched[i])])

\* values_list("metadatablocks__compounds__primitives__accepted", flat=True)
compound_fields(review_id) ==
    LET perCompound(c) == OrNull(Accepted(primitives_of_compound(c.id)))
        perBlock(m) ==
            LET cs == compounds_of_block(m.id)
            IN  OrNull(Flatten([k \in 1..Len(cs) |-> perCompound(cs[k])]))
        perReview(r) ==
            LET blocks == blocks_of_review(r.id)
            IN  OrNull(Flatten([b \in 1..Len(blocks) |-> perBlock(blocks[b])]))
        matched == reviews_by_pk(review_id)
    IN  Flatten([i \in 1..Len(matched) |-> perReview(matched[i])])

\* accepted counted as "not False" instead of "is True"
accepted_fields_not_false(flags) ==
    Len(SelectSeq(flags, LAMBDA x : x # "false"))

\* len(list(filter(lambda x: x is True, ...)))
accepted_fields(flags) ==
    Len(SelectSeq(flags, LAMBDA x : x = "true"))

\* the response of get_field_count
get_field_count(review_id) ==
    Response(200, NoId,
             Len(primitive_fields(review_id))
                 + Len(compound_fields(review_id)) - 1,
             accepted_fields(primitive_fields(review_id)
                                 \o compound_fields(review_id)),
             <<>>)

\* GET field-count-by-review-id
GetFieldCount(review_id) ==
    /\ request' = [op |-> "count", site_url |-> Absent, doi |-> Absent,
                   id |-> review_id]
    /\ response' = get_field_count(review_id)
    /\ outbound' = <<>>
    /\ UNCHANGED <<store, remote, schemas, checked, verdict, tasks>>

\* PATCH of a Field with {"accepted": accepted} (FieldDetails); of the
\* response, the serialized Field, only the status is kept
UpdateField(i, accepted) ==
    /\ i \in 1..Len(fields)
    /\ fields' = [fields EXCEPT ![i].accepted = accepted]
    /\ Cardinality({k \in 1..Len(fields) : fields'[k].accepted # "null"})
         <= MaxDecided
    /\ request' = [op |-> "patch_field", site_url |-> Absent, doi |-> Absent,
                   id |-> NoId]
    /\ response' = Response(200, NoId, 0, 0, <<>>)
    /\ outbound' = <<>>
    /\ UNCHANGED <<reviews, metadatablocks, compounds, nextId, remote,
                   schemas, checked, verdict, files, messages, tasks>>

\* the datasets that differ in shape only: every value present is "a"
ShapeDatasets ==
    {ds \in Datasets :
        /\ ds[1].block.v[1].value # PyI("7")
        /\ \A e \in Range(ds[1].block.v[2].value.v) : e = PyS("a")}

InitCount ==
    /\ reviews = <<>>
    /\ metadatablocks = <<>>
    /\ compounds = <<>>
    /\ fields = <<>>
    /\ files = <<>>
    /\ messages = <<>>
    /\ pending = NoPending
    /\ job = NoJob
    /\ nextId = 1
    /\ remote \in {r \in [DOIs -> Datasets \cup {NoDataset}] :
                      /\ r["doi:10/A"] \in ShapeDatasets
                      /\ r["doi:10/B"] = NoDataset}
    /\ request = NoRequest
    /\ response = NoResponse
    /\ outbound = <<>>
    /\ schemas = <<>>
    /\ checked = PyNone
    /\ verdict = NotCalled

NextCount ==
    \/ \E doi \in DOIs : FetchDataset("https://dv.org/", doi)
    \/ \E i \in 1..Len(fields), accepted \in {"true", "false", "null"} :
          UpdateField(i, accepted)
    \/ \E review_id \in {r.id : r \in Range(reviews)} \cup {nextId} :
          GetFieldCount(review_id)

SpecCount == InitCount /\ [][NextCount]_vars

\* the Field rows of a Review: under its Metadatablocks and their Compounds
FieldsOfReview(review_id) ==
    {i \in 1..Len(fields) :
        \E m \in Range(blocks_of_review(review_id)) :
            \/ fields[i].metadatablock = m.id
            \/ \E c \in Range(compounds_of_block(m.id)) :
                   fields[i].compound = c.id}

\* C7: field_count is the number of Field rows directly under the review's
\* Metadatablocks plus the number under its Compounds.
C7_FieldCountIsNumberOfFields ==
    (request.op = "count" /\ request.id \in {r.id : r \in Range(reviews)}) =>
        response.field_count = Cardinality(FieldsOfReview(request.id))

\* C8: the accepted count is the number of Field rows of the review whose
\* acceptance flag is True; unset and False flags, and blocks and compounds
\* without a Field, add nothing.
C8_AcceptedCountIsNumberOfTrueFlags ==
    request.op = "count" =>
        response.accpected_count
          = Cardinality({i \in FieldsOfReview(request.id) :
                            fields[i].accepted = "true"})

\* a count over a review with an accepted and a rejected Field, an undecided
\* one, and a Compound without Fields
C8_Witness ==
    /\ request.op = "count"
    /\ response.accpected_count = 1
    /\ \E i, j, k \in FieldsOfReview(request.id) :
          /\ fields[i].accepted = "true" /\ fields[i].compound # NoId
          /\ fields[j].accepted = "false"
          /\ fields[k].accepted = "null"
    /\ \E m \in Range(blocks_of_review(request.id)) :
          \E c \in Range(compounds_of_block(m.id)) :
              Len(primitives_of_compound(c.id)) = 0

(* ------------------------------------------------------------------ *)
(* Open-Fields Reconciler                                              *)
(* ------------------------------------------------------------------ *)

\* str.lower() of one character
lower(ch) ==
    CASE ch = "C" -> "c"
      [] ch = "D" -> "d"
      [] OTHER -> ch

\* displayName.replace(" ", "_").lower(), a string being its characters
snake(displayName) ==
    [i \in 1..Len(displayName) |->
        lower(IF displayName[i] = " " THEN "_" ELSE displayName[i])]

\* the display names a schema can use
DisplayNames == {<<"C">>, <<"c">>, <<"C", " ", "d">>}

\* the entries of a field's childFields
ChildFields ==
    {[name |-> n, displayName |-> d] :
        n \in {<<"C">>, <<"x">>}, d \in DisplayNames}

\* the entries of data.fields that take w entries of the schema: a field
\* without the key childFields, or a field with w - 1 child fields
SchemaFields(w) ==
    (IF w = 1
        THEN {[displayName |-> d, hasChildFields |-> FALSE,
               childFields |-> <<>>] : d \in DisplayNames}
     ELSE {})
    \cup {[displayName |-> d, hasChildFields |-> TRUE, childFields |-> c] :
             d \in DisplayNames, c \in [1..(w - 1) -> ChildFields]}

\* response.json()["data"]["fields"].values() of the schemas of at most n
\* entries
RECURSIVE Payloads(_)
Payloads(n) ==
    {<<>>} \cup
    UNION {{<<f>> \o rest : f \in SchemaFields(w), rest \in Payloads(n - w)} :
              w \in 1..n}

\* the answers of GET {site_url}/api/metadatablocks/{name}
HttpError == [ok |-> FALSE, fields |-> <<>>]

HttpOk(payload) == [ok |-> TRUE, fields |-> payload]

\* _get_child_field_names
_get_child_field_names(payload) ==
    Flatten([i \in 1..Len(payload) |->
                [k \in 1..Len(payload[i].childFields) |->
                    payload[i].childFields[k].name]])

\* _retrieve_primitives
_retrieve_primitives(payload) ==
    LET child_field_names == Range(_get_child_field_names(payload))
        kept == SelectSeq(payload,
                          LAMBDA f : /\ f.displayName \notin child_field_names
                                     /\ ~ f.hasChildFields)
    IN  [i \in 1..Len(kept) |-> snake(kept[i].displayName)]

\* _retrieve_compounds
_retrieve_compounds(payload) ==
    LET kept == SelectSeq(payload, LAMBDA f : f.hasChildFields)
    IN  [i \in 1..Len(kept) |->
            [name |-> snake(kept[i].displayName),
             childFields |->
                 [k \in 1..Len(kept[i].childFields) |->
                     snake(kept[i].childFields[k].displayName)]]]

\* the merge returning every primitive, compound child or not
merge_keeping_children(name, prims, comps) ==
    [name |-> name, primitives |-> prims, compounds |-> comps]

\* the merge of _fetch_open_metadatablock_fields: the primitives that are
\* child fields of a compound are removed
merge(name, prims, comps) ==
    LET all_compound_fields ==
            Range(Flatten([i \in 1..Len(comps) |-> comps[i].childFields]))
    IN  [name |-> name,
         primitives |-> SelectSeq(prims,
                                  LAMBDA x : x \notin all_compound_fields),
         compounds |-> comps]

\* site_url without one trailing "/"
strip_slash(site_url) ==
    IF site_url = "https://dv.org/" THEN "https://dv.org" ELSE site_url

\* url.format(site_url=site_url, metadatablock_id=metadatablock.name)
schema_url(site_url, name) ==
    strip_slash(site_url) \o "/api/metadatablocks/" \o name

\* the list comprehension over review.metadatablocks.all(), from block b on:
\* out.data the results so far, out.outbound the URLs fetched, out.raised
\* whether raise_for_status raised
RECURSIVE _fetch_open_metadatablock_fields(_, _, _, _)
_fetch_open_metadatablock_fields(blocks, b, site_url, out) ==
    IF b > Len(blocks) \/ out.raised THEN out
    ELSE
        LET name == blocks[b].name
            got == schemas[name]
            sent == Append(out.outbound, schema_url(site_url, name))
        IN  IF ~ got.ok
                THEN [out EXCEPT !.outbound = sent, !.raised = TRUE]
            ELSE _fetch_open_metadatablock_fields(blocks, b + 1, site_url,
                     [out EXCEPT
                         !.outbound = sent,
                         !.data = Append(@,
                             merge(name, _retrieve_primitives(got.fields),
                                   _retrieve_compounds(got.fields)))])

\* the review looked up without its id: Review.objects.first()
first_review(review_pk) ==
    reviews

\* Review.objects.prefetch_related(...).filter(id=review_pk)
reviews_by_id(review_pk) ==
    SelectSeq(reviews, LAMBDA r : r.id = review_pk)

\* the handler catching the HTTPError and answering 200 with the entries
\* computed before it
fetch_open_fields_partial(review_pk) ==
    IF Len(reviews_by_id(review_pk)) = 0
        THEN [response |-> Response(404, NoId, 0, 0, <<>>), outbound |-> <<>>]
    ELSE
        LET review == reviews_by_id(review_pk)[1]
            out == _fetch_open_metadatablock_fields(
                       blocks_of_review(review.id), 1, review.site_url,
                       [data |-> <<>>, outbound |-> <<>>, raised |-> FALSE])
        IN  [response |-> Response(200, NoId, 0, 0, out.data),
             outbound |-> out.outbound]

\* the response and the URLs fetched by
\* fetch_open_metadatablock_fields_for_review
fetch_open_metadatablock_fields_for_review(review_pk) ==
    IF Len(reviews_by_id(review_pk)) = 0
        THEN [response |-> Response(404, NoId, 0, 0, <<>>), outbound |-> <<>>]
    ELSE
        LET review == reviews_by_id(review_pk)[1]
            out == _fetch_open_metadatablock_fields(
                       blocks_of_review(review.id), 1, review.site_url,
                       [data |-> <<>>, outbound |-> <<>>, raised |-> FALSE])
        IN  [response |-> IF out.raised
                             THEN Response(500, NoId, 0, 0, <<>>)
                          ELSE Response(200, NoId, 0, 0, out.data),
             outbound |-> out.outbound]

\* GET open-fields-by-review-id
GetOpenFields(review_pk) ==
    LET out == fetch_open_metadatablock_fields_for_review(review_pk) IN
    /\ request' = [op |-> "open", site_url |-> Absent, doi |-> Absent,
                   id |-> review_pk]
    /\ response' = out.response
    /\ outbound' = out.outbound
    /\ UNCHANGED <<store, remote, schemas, checked, verdict, tasks>>

\* the datasets with a box and at most a title besides
OpenDatasets ==
    {ds \in ShapeDatasets :
        /\ ds[1].block.v[2].value = PyL(<<>>)
        /\ ds[1].block.v[3].value = PyL(<<>>)
        /\ ds[2].block.v[1].value = PyNode(<<PyField("north", "primitive",
                                                     FALSE, PyS("a"))>>)}

InitOpen ==
    /\ reviews = <<>>
    /\ metadatablocks = <<>>
    /\ compounds = <<>>
    /\ fields = <<>>
    /\ files = <<>>
    /\ messages = <<>>
    /\ pending = NoPending
    /\ job = NoJob
    /\ nextId = 1
    /\ remote \in {r \in [DOIs -> Datasets \cup {NoDataset}] :
                      /\ r["doi:10/A"] \in OpenDatasets
                      /\ r["doi:10/B"] = NoDataset}
    /\ request = NoRequest
    /\ response = NoResponse
    /\ outbound = <<>>
    /\ schemas \in {x \in [{"citation", "geospatial"} ->
                              {HttpOk(y) : y \in Payloads(MaxSchemaEntries)}
                              \cup {HttpError}] :
                       x["geospatial"].fields \in {<<>>}}
    /\ checked = PyNone
    /\ verdict = NotCalled

NextOpen ==
    \/ \E site_url \in SiteUrls, doi \in DOIs : FetchDataset(site_url, doi)
    \/ \E review_pk \in {r.id : r \in Range(reviews)} \cup {nextId} :
          GetOpenFields(review_pk)

SpecOpen == InitOpen /\ [][NextOpen]_vars

\* the schema {A: no childFields, B: childFields [C, D]} of the example, in
\* the display names of the model
ExampleSchema ==
    <<[displayName |-> <<"C", " ", "d">>, hasChildFields |-> FALSE,
       childFields |-> <<>>],
      [displayName |-> <<"c">>, hasChildFields |-> TRUE,
       childFields |-> <<[name |-> <<"x">>, displayName |-> <<"C">>],
                         [name |-> <<"x">>, displayName |-> <<"C", " ", "d">>]>>]>>

\* the same schema with the one child C
SmallExampleSchema ==
    <<ExampleSchema[1],
      [ExampleSchema[2] EXCEPT !.childFields = <<@[1]>>]>>

\* C9: in every entry of an open-fields result no name of the primitives is
\* a childFields name of a compound of that entry; the example schema gives
\* its one standalone field as the primitives and its one compound with the
\* snake-cased child names, the standalone field being dropped once a child
\* has its name.
C9_NoPrimitiveIsCompoundChild ==
    (request.op = "open" /\ response.status = 200) =>
        \A e \in Range(response.data) :
            /\ \A c \in Range(e.compounds) :
                  Range(e.primitives) \cap Range(c.childFields) = {}
            /\ schemas[e.name].fields = SmallExampleSchema =>
                  /\ e.primitives = << <<"c", "_", "d">> >>
                  /\ e.compounds = <<[name |-> <<"c">>,
                                      childFields |-> << <<"c">> >>]>>
            /\ schemas[e.name].fields = ExampleSchema =>
                  /\ e.primitives = <<>>
                  /\ e.compounds =
                        <<[name |-> <<"c">>,
                           childFields |-> << <<"c">>, <<"c", "_", "d">> >>]>>

\* a result from a schema whose standalone field "C" is also the display
\* name of a child field called "x": only the merge can have removed it
C9_Witness ==
    /\ request.op = "open"
    /\ response.status = 200
    /\ \E e \in Range(response.data) :
          /\ e.primitives = <<>>
          /\ e.compounds # <<>>
          /\ \E f \in Range(schemas[e.name].fields) :
                /\ ~ f.hasChildFields
                /\ f.displayName = <<"C">>
                /\ \A g \in Range(schemas[e.name].fields) :
                      \A ch \in Range(g.childFields) : ch.name = <<"x">>

\* C10: an open-fields request for an id no Review has is answered 404, and
\* the handler fetches no remote schema.
C10_UnknownReviewIs404 ==
    [][(request'.op = "open"
        /\ ~ \E r \in Range(reviews) : r.id = request'.id)
       => (response'.status = 404 /\ outbound' = <<>> /\ store' = store)]_vars

\* a 404 while the store holds a Review with two Metadatablocks
\* the example schema answered with its primitives and its compound
C9_ExampleReached ==
    /\ request.op = "open"
    /\ response.status = 200
    /\ \E e \in Range(response.data) :
          schemas[e.name].fields = SmallExampleSchema

C10_Witness ==
    /\ request.op = "open"
    /\ response.status = 404
    /\ outbound = <<>>
    /\ \E r \in Range(reviews) : Len(blocks_of_review(r.id)) = 2

\* the blocks of the review an open-fields request named
RequestedBlocks == blocks_of_review(request.id)

\* C11: an open-fields request over a review one of whose blocks has a
\* schema the installation answers with a non-success status ends in an
\* error that carries no entry, neither of the blocks fetched before the
\* failing one nor of the failing one; the blocks after it are not fetched.
C11_FailedFetchReturnsNothing ==
    (request.op = "open"
     /\ \E m \in Range(RequestedBlocks) : ~ schemas[m.name].ok) =>
        /\ response.status = 500
        /\ response.data = <<>>
        /\ ~ schemas[RequestedBlocks[Len(outbound)].name].ok
        /\ \A k \in 1..(Len(outbound) - 1) : schemas[RequestedBlocks[k].name].ok

\* the second block's fetch failed after the first block's schema, which
\* has a primitive and a compound, had been fetched
C11_Witness ==
    /\ request.op = "open"
    /\ response.status = 500
    /\ Len(RequestedBlocks) = 2
    /\ Len(outbound) = 2
    /\ schemas[RequestedBlocks[1].name].ok
    /\ _retrieve_primitives(schemas[RequestedBlocks[1].name].fields) # <<>>
    /\ _retrieve_compounds(schemas[RequestedBlocks[1].name].fields) # <<>>
    /\ ~ schemas[RequestedBlocks[2].name].ok

(* ------------------------------------------------------------------ *)
(* Claims about failed ingestions                                      *)
(* ------------------------------------------------------------------ *)

\* the rows a Review owns: its Metadatablocks, their Compounds, and the
\* Fields of both
RowsOf(review) ==
    LET blocks == blocks_of_review(review)
        owned == Flatten([b \in 1..Len(blocks) |->
                             compounds_of_block(blocks[b].id)])
    IN  [metadatablocks |-> blocks,
         compounds |-> owned,
         fields |-> SelectSeq(fields, LAMBDA f :
                        \/ \E m \in Range(blocks) : f.metadatablock = m.id
                        \/ \E c \in Range(owned) : f.compound = c.id)]

\* a block of the Review's dataset that the Emptiness Filter lets through
\* has no Metadatablock row, or its row lacks a Field the block holds
Partial(r) ==
    \E b \in Range(SourceBlocks(r)) :
        /\ ~ _is_empty(b.block)
        /\ \A m \in Range(blocks_of_review(r.id)) :
              m.name = b.name =>
                Names(primitives_of_block(m.id))
                    # Names(StoredPrimitives(b.block))

IsPrefix(s, t) == Len(s) <= Len(t) /\ SubSeq(t, 1, Len(s)) = s

\* C14: a fetch-dataset of d that fails once the dataset is loaded leaves
\* the Review of d and the rows inserted so far in the store, on top of the
\* rows that were there; and a Review that lacks rows of its dataset keeps
\* exactly its rows at every step, a fetch-dataset of its DOI answering 200
\* with its id and inserting nothing.
C14_PartialReviewIsNeverRepaired ==
    [][/\ \A d \in DOIs :
            (FetchOf(d) /\ response'.status # 200
             /\ remote[d] # NoDataset
             /\ ~ \E r \in Range(reviews) : r.doi = d) =>
                /\ Len(reviews') = Len(reviews) + 1
                /\ reviews'[Len(reviews')].doi = d
                /\ \A r \in {reviews'[Len(reviews')]} : Partial(r)'
                /\ IsPrefix(reviews, reviews')
                /\ IsPrefix(metadatablocks, metadatablocks')
                /\ IsPrefix(compounds, compounds')
                /\ IsPrefix(fields, fields')
       /\ \A r \in Range(reviews) :
            Partial(r) =>
                /\ r \in Range(reviews')
                /\ RowsOf(r.id)' = RowsOf(r.id)
                /\ Partial(r)'
                /\ FetchOf(r.doi) =>
                     /\ store' = store
                     /\ response'.status = 200
                     /\ response'.id = r.id]_vars

\* a re-fetch answered with a Review that has a Metadatablock and a Field
\* but lacks a block of its dataset
C14_Witness ==
    /\ request.op = "fetch"
    /\ response.status = 200
    /\ \E r \in Range(reviews) :
          /\ r.id = response.id
          /\ Partial(r)
          /\ RowsOf(r.id).fields # <<>>
          /\ \E b \in Range(SourceBlocks(r)) :
                /\ ~ _is_empty(b.block)
                /\ ~ \E m \in Range(blocks_of_review(r.id)) : m.name = b.name

\* C17: for every review id, of a Review or of none, the response of
\* field-count-by-review-id has 0 <= accepted count <= field_count.
C17_AcceptedWithinFieldCount ==
    request.op = "count" =>
        /\ 0 <= response.accpected_count
        /\ response.accpected_count <= response.field_count

(* ------------------------------------------------------------------ *)
(* Claims about the Emptiness Filter and the Tree Flattener together   *)
(* ------------------------------------------------------------------ *)

\* the request handled in this step is a fetch-dataset that ingested doi
\* and answered 200
Ingested(doi) ==
    /\ FetchOf(doi)
    /\ response'.status = 200
    /\ ~ \E r \in Range(reviews) : r.doi = doi

\* C18: every Metadatablock row an ingestion that ran to its end created
\* has a Field row or a Compound row under it.
C18_PersistedBlockHasChild ==
    [][\A d \in DOIs :
          Ingested(d) =>
            \A m \in Range(metadatablocks') :
                m.review = response'.id =>
                    \/ \E f \in Range(fields') : f.metadatablock = m.id
                    \/ \E c \in Range(compounds') : c.metadatablock = m.id]_vars

\* a Review with a Metadatablock that has Compounds and no Field of its own
C18_Witness ==
    /\ request.op = "fetch"
    /\ response.status = 200
    /\ ~ Partial(CHOOSE r \in Range(reviews) : r.id = response.id)
    /\ \E m \in Range(blocks_of_review(response.id)) :
          /\ primitives_of_block(m.id) = <<>>
          /\ compounds_of_block(m.id) # <<>>

\* the Compound rows of the Review this step ingested
IngestedCompounds ==
    {c \in Range(compounds') :
        \E m \in Range(metadatablocks') :
            m.review = response'.id /\ c.metadatablock = m.id}

\* C19: every Compound row an ingestion that ran to its end created has a
\* Field row under it.
C19_CompoundHasField ==
    [][\A d \in DOIs :
          Ingested(d) =>
            \A c \in IngestedCompounds :
                \E f \in Range(fields') : f.compound = c.id]_vars

\* the sub-fields of a compound entry that hold a value
NonNull(entry) == SelectSeq(entry.v, LAMBDA f : f.value.t # "none")

\* the entries _process_metadatablock walks for a compound field
WalkedEntries(s) ==
    IF s.value.t = "none" \/ s.value = PyL(<<>>) THEN <<>> ELSE EntriesOf(s)

\* C19 as amended: an ingestion that ran to its end created, under each
\* Metadatablock, one Compound row per entry of each compound field of the
\* block, in order, and the Field rows of that Compound are the entry's
\* non-null sub-fields, in order; so a Compound has no Field exactly when
\* every sub-field of its entry is None.
C19_CompoundHoldsNonNullSubFields ==
    [][\A d \in DOIs :
          Ingested(d) =>
            \A m \in Range(metadatablocks') :
                m.review = response'.id =>
                    \A b \in Range(remote[d]) :
                        b.name = m.name =>
                            /\ \A c \in Range(compounds_of_block(m.id)') :
                                  \E s \in Range(b.block.v) :
                                      /\ s.name = c.name
                                      /\ s.typeClass = "compound"
                            /\ \A s \in Range(b.block.v) :
                                  s.typeClass = "compound" =>
                                    LET rows == SelectSeq(
                                                  compounds_of_block(m.id)',
                                                  LAMBDA c : c.name = s.name)
                                    IN  /\ Len(rows) = Len(WalkedEntries(s))
                                        /\ \A k \in 1..Len(rows) :
                                             \A c \in {rows[k]} :
                                               Names(primitives_of_compound(c.id)')
                                                 = Names(NonNull(
                                                       WalkedEntries(s)[k]))]_vars

\* a Review ingested to its end with a Compound without Fields beside a
\* Compound with a Field, under the same Metadatablock
C19_Witness ==
    /\ request.op = "fetch"
    /\ response.status = 200
    /\ ~ Partial(CHOOSE r \in Range(reviews) : r.id = response.id)
    /\ \E m \in Range(blocks_of_review(response.id)) :
          \E c1, c2 \in Range(compounds_of_block(m.id)) :
              /\ primitives_of_compound(c1.id) = <<>>
              /\ Len(primitives_of_compound(c2.id)) = 2

(* ------------------------------------------------------------------ *)
(* The CRUD endpoints that write the Review Store                      *)
(* ------------------------------------------------------------------ *)

\* most primary keys the store hands out
MaxKeys == 8

Ids(rows) == {rows[i].id : i \in 1..Len(rows)}

\* PATCH of a Field with {"metadatablock": ..., "compound": ...}
\* (FieldDetails): FieldSerializer takes every column of Field, and both
\* foreign keys accept null or the key of a row
PatchFieldParents(i, metadatablock, compound) ==
    /\ i \in 1..Len(fields)
    /\ metadatablock \in Ids(metadatablocks) \cup {NoId}
    /\ compound \in Ids(compounds) \cup {NoId}
    /\ fields' = [fields EXCEPT ![i].metadatablock = metadatablock,
                                ![i].compound = compound]
    /\ request' = [op |-> "patch_field", site_url |-> Absent, doi |-> Absent,
                   id |-> NoId]
    /\ response' = Response(200, NoId, 0, 0, <<>>)
    /\ outbound' = <<>>
    /\ UNCHANGED <<reviews, metadatablocks, compounds, nextId, remote,
                   schemas, checked, verdict, files, messages, tasks>>

\* POST of a Message (MessageCreate); field and compound are nullable
AddMessage(field, compound) ==
    /\ field \in Ids(fields) \cup {NoId}
    /\ compound \in Ids(compounds) \cup {NoId}
    /\ messages' = Append(messages, [id |-> nextId, field |-> field,
                                     compound |-> compound])
    /\ nextId' = nextId + 1
    /\ request' = [op |-> "post_message", site_url |-> Absent,
                   doi |-> Absent, id |-> NoId]
    /\ response' = Response(201, nextId, 0, 0, <<>>)
    /\ outbound' = <<>>
    /\ UNCHANGED <<reviews, metadatablocks, compounds, fields, files, remote,
                   schemas, checked, verdict, tasks>>

\* a File row saved for a Review: File(review=review, ...).save()
AddFile(review) ==
    /\ review \in Ids(reviews)
    /\ files' = Append(files, [id |-> nextId, review |-> review,
                               accepted |-> FALSE])
    /\ nextId' = nextId + 1
    /\ request' = [op |-> "save_file", site_url |-> Absent, doi |-> Absent,
                   id |-> NoId]
    /\ response' = NoResponse
    /\ outbound' = <<>>
    /\ UNCHANGED <<reviews, metadatablocks, compounds, fields, messages,
                   remote, schemas, checked, verdict, tasks>>

\* the Fields the cascade reaches through Field.metadatablock only
cascade_fields_of_blocks(gone_blocks, gone_compounds) ==
    {f.id : f \in {x \in Range(fields) : x.metadatablock \in gone_blocks}}

\* the Fields the cascade reaches: on_delete=CASCADE on Field.metadatablock
\* and on Field.compound
cascade_fields(gone_blocks, gone_compounds) ==
    {f.id : f \in {x \in Range(fields) :
                      \/ x.metadatablock \in gone_blocks
                      \/ x.compound \in gone_compounds}}

\* the tables after review.delete(): Django collects the rows that refer to
\* a collected row through a foreign key with on_delete=CASCADE
delete_review(review_pk) ==
    LET gone_blocks ==
            {m.id : m \in {x \in Range(metadatablocks) : x.review = review_pk}}
        gone_compounds ==
            {c.id : c \in {x \in Range(compounds) :
                              x.metadatablock \in gone_blocks}}
        gone_fields == cascade_fields(gone_blocks, gone_compounds)
    IN  [reviews |-> SelectSeq(reviews, LAMBDA r : r.id # review_pk),
         metadatablocks |->
             SelectSeq(metadatablocks, LAMBDA m : m.id \notin gone_blocks),
         compounds |->
             SelectSeq(compounds, LAMBDA c : c.id \notin gone_compounds),
         fields |-> SelectSeq(fields, LAMBDA f : f.id \notin gone_fields),
         files |-> SelectSeq(files, LAMBDA f : f.review # review_pk),
         messages |->
             SelectSeq(messages, LAMBDA g : /\ g.field \notin gone_fields
                                            /\ g.compound \notin gone_compounds)]

\* DELETE of a Review (ReviewDetails)
DeleteReview(review_pk) ==
    LET found == review_pk \in Ids(reviews)
        db == delete_review(review_pk)
    IN  /\ reviews' = IF found THEN db.reviews ELSE reviews
        /\ metadatablocks' = IF found THEN db.metadatablocks ELSE metadatablocks
        /\ compounds' = IF found THEN db.compounds ELSE compounds
        /\ fields' = IF found THEN db.fields ELSE fields
        /\ files' = IF found THEN db.files ELSE files
        /\ messages' = IF found THEN db.messages ELSE messages
        /\ request' = [op |-> "delete", site_url |-> Absent, doi |-> Absent,
                       id |-> review_pk]
        /\ response' = Response(IF found THEN 204 ELSE 404, NoId, 0, 0, <<>>)
        /\ outbound' = <<>>
        /\ UNCHANGED <<nextId, remote, schemas, checked, verdict, tasks>>

\* the datasets with a box and nothing else
StoreDatasets == {ds \in OpenDatasets : ds[1].block.v[1].value = PyNone}

InitStore ==
    /\ reviews = <<>>
    /\ metadatablocks = <<>>
    /\ compounds = <<>>
    /\ fields = <<>>
    /\ files = <<>>
    /\ messages = <<>>
    /\ pending = NoPending
    /\ job = NoJob
    /\ nextId = 1
    /\ remote \in {r \in [DOIs -> Datasets \cup {NoDataset}] :
                      /\ r["doi:10/A"] \in StoreDatasets
                      /\ r["doi:10/B"] \in SmallDatasets}
    /\ request = NoRequest
    /\ response = NoResponse
    /\ outbound = <<>>
    /\ schemas = <<>>
    /\ checked = PyNone
    /\ verdict = NotCalled

NextStore ==
    \/ \E doi \in DOIs : nextId <= MaxKeys /\ FetchDataset("https://dv.org/", doi)
    \/ \E i \in 1..Len(fields), metadatablock \in Ids(metadatablocks) \cup {NoId},
          compound \in Ids(compounds) \cup {NoId} :
          PatchFieldParents(i, metadatablock, compound)
    \/ \E field \in Ids(fields) \cup {NoId}, compound \in Ids(compounds) \cup {NoId} :
          nextId <= MaxKeys /\ AddMessage(field, compound)
    \/ \E review \in Ids(reviews) : nextId <= MaxKeys /\ AddFile(review)
    \/ \E review_pk \in Ids(reviews) \cup {nextId} : DeleteReview(review_pk)

SpecStore == InitStore /\ [][NextStore]_vars

\* C12: every Field row has exactly one parent, a Metadatablock or a
\* Compound, never both and never neither.
C12_FieldHasExactlyOneParent ==
    \A f \in Range(fields) :
        (f.metadatablock # NoId) # (f.compound # NoId)

\* the Reviews a Metadatablock, a Compound, a Field and a Message belong to,
\* following their foreign keys upwards
ReviewsOfBlock(id) ==
    {m.review : m \in {x \in Range(metadatablocks) : x.id = id}}

ReviewsOfCompound(id) ==
    UNION {ReviewsOfBlock(c.metadatablock) :
              c \in {x \in Range(compounds) : x.id = id}}

ReviewsOfField(id) ==
    UNION {ReviewsOfBlock(f.metadatablock) \cup ReviewsOfCompound(f.compound) :
              f \in {x \in Range(fields) : x.id = id}}

ReviewsOfMessage(g) ==
    ReviewsOfField(g.field) \cup ReviewsOfCompound(g.compound)

\* C13: a DELETE of a Review that is answered 204 leaves none of the
\* Metadatablocks, Compounds, Fields, Files and Messages that belonged to
\* the Review, and leaves every other row as it was, in its place; a DELETE
\* of an id no Review has changes nothing.
C13_DeleteCascades ==
    [][request'.op = "delete" =>
         LET pk == request'.id IN
         IF response'.status = 204
             THEN /\ reviews' = SelectSeq(reviews, LAMBDA r : r.id # pk)
                  /\ metadatablocks'
                       = SelectSeq(metadatablocks, LAMBDA m : m.review # pk)
                  /\ compounds'
                       = SelectSeq(compounds,
                                   LAMBDA c : pk \notin ReviewsOfCompound(c.id))
                  /\ fields'
                       = SelectSeq(fields,
                                   LAMBDA f : pk \notin ReviewsOfField(f.id))
                  /\ files' = SelectSeq(files, LAMBDA f : f.review # pk)
                  /\ messages'
                       = SelectSeq(messages,
                                   LAMBDA g : pk \notin ReviewsOfMessage(g))
                  /\ pk \in Ids(reviews)
         ELSE store' = store /\ pk \notin Ids(reviews)]_vars

\* a DELETE answered 204 that removed six rows, the four of a Review and
\* two rows attached to it, while the three rows of the other Review remain
C13_Witness ==
    /\ request.op = "delete"
    /\ response.status = 204
    /\ Len(reviews) = 1
    /\ Len(blocks_of_review(reviews[1].id)) = 1
    /\ Len(fields) = 1
    /\ compounds = <<>> /\ files = <<>> /\ messages = <<>>
    /\ nextId = 10

(* ------------------------------------------------------------------ *)
(* One block's open-fields processing, worker by worker                *)
(* ------------------------------------------------------------------ *)

\* the schemas handed to the workers: top-level display names "C" and "c",
\* child fields displayed as "C"
WorkerPayloads ==
    {p \in Payloads(MaxSchemaEntries) :
        \A i \in 1..Len(p) :
            /\ p[i].displayName \in {<<"C">>, <<"c">>}
            /\ \A k \in 1..Len(p[i].childFields) :
                  p[i].childFields[k].displayName = <<"C">>}

\* what a step changes besides job
JobStep == UNCHANGED <<store, remote, request, response, outbound, schemas,
                       checked, verdict, pending>>

\* executor.submit(_retrieve_primitives, fields)
SubmitPrimitives ==
    /\ job.pc = "fetched"
    /\ job' = [job EXCEPT !.pc = "submitted", !.primitives.pc = "names"]
    /\ JobStep

\* executor.submit(_retrieve_compounds, fields)
SubmitCompounds ==
    /\ job.pc = "submitted"
    /\ job' = [job EXCEPT !.pc = "primitives.result()",
                          !.compounds.pc =
                              IF Len(job.fields) = 0 THEN "done" ELSE "loop"]
    /\ JobStep

\* the worker of _retrieve_primitives calls _get_child_field_names
PrimitivesNames ==
    /\ job.primitives.pc = "names"
    /\ job' = [job EXCEPT
                  !.primitives.child_field_names =
                      Range(_get_child_field_names(job.fields)),
                  !.primitives.pc =
                      IF Len(job.fields) = 0 THEN "done" ELSE "loop"]
    /\ JobStep

\* the worker of _retrieve_primitives looks at one field of the payload
PrimitivesStep ==
    /\ job.primitives.pc = "loop"
    /\ LET w == job.primitives
           field == job.fields[w.i]
           keep == /\ field.displayName \notin w.child_field_names
                   /\ ~ field.hasChildFields
       IN  job' = [job EXCEPT
                      !.primitives.out =
                          IF keep THEN Append(@, snake(field.displayName))
                          ELSE @,
                      !.primitives.i = @ + 1,
                      !.primitives.pc =
                          IF w.i = Len(job.fields) THEN "done" ELSE "loop"]
    /\ JobStep

\* the worker of _retrieve_compounds looks at one field of the payload
CompoundsStep ==
    /\ job.compounds.pc = "loop"
    /\ LET w == job.compounds
           field == job.fields[w.i]
           compound ==
               [name |-> snake(field.displayName),
                childFields |->
                    [k \in 1..Len(field.childFields) |->
                        snake(field.childFields[k].displayName)]]
       IN  job' = [job EXCEPT
                      !.compounds.out =
                          IF field.hasChildFields THEN Append(@, compound)
                          ELSE @,
                      !.compounds.i = @ + 1,
                      !.compounds.pc =
                          IF w.i = Len(job.fields) THEN "done" ELSE "loop"]
    /\ JobStep

\* reading what a worker has collected without waiting for it
result_ready_at_once(worker) == TRUE

\* Future.result() returns once the worker has returned
result_ready(worker) == worker.pc = "done"

\* primitives = primitives.result()
PrimitivesResult ==
    /\ job.pc = "primitives.result()"
    /\ result_ready(job.primitives)
    /\ job' = [job EXCEPT !.pc = "compounds.result()",
                          !.primitives_result = job.primitives.out]
    /\ JobStep

\* compounds = compounds.result()
CompoundsResult ==
    /\ job.pc = "compounds.result()"
    /\ result_ready(job.compounds)
    /\ job' = [job EXCEPT !.pc = "merge",
                          !.compounds_result = job.compounds.out]
    /\ JobStep

\* the merge and the return of _fetch_open_metadatablock_fields
Merge ==
    /\ job.pc = "merge"
    /\ job' = [job EXCEPT !.pc = "done",
                          !.result = merge(job.name, job.primitives_result,
                                           job.compounds_result)]
    /\ JobStep

InitWorkers ==
    /\ reviews = <<>>
    /\ metadatablocks = <<>>
    /\ compounds = <<>>
    /\ fields = <<>>
    /\ files = <<>>
    /\ messages = <<>>
    /\ pending = NoPending
    /\ job \in {[NoJob EXCEPT !.pc = "fetched", !.name = "citation",
                              !.fields = p] : p \in WorkerPayloads}
    /\ nextId = 1
    /\ remote = [d \in DOIs |-> NoDataset]
    /\ request = NoRequest
    /\ response = NoResponse
    /\ outbound = <<>>
    /\ schemas = <<>>
    /\ checked = PyNone
    /\ verdict = NotCalled

NextWorkers ==
    \/ SubmitPrimitives
    \/ SubmitCompounds
    \/ PrimitivesNames
    \/ PrimitivesStep
    \/ CompoundsStep
    \/ PrimitivesResult
    \/ CompoundsResult
    \/ Merge

SpecWorkers == InitWorkers /\ [][NextWorkers]_vars

\* C15: the merge starts only once both workers have returned, no step
\* changes the fetched payload, and whatever the order of the workers'
\* steps the result is the merge of the two lists the payload determines.
C15_MergeAfterBothWorkers ==
    [][/\ job'.pc \in {"merge", "done"} =>
            /\ job'.primitives.pc = "done"
            /\ job'.compounds.pc = "done"
       /\ job'.fields = job.fields
       /\ job'.pc = "done" =>
            job'.result = merge(job.name, _retrieve_primitives(job.fields),
                                _retrieve_compounds(job.fields))]_vars

\* a result for a payload of two fields whose standalone field the
\* primitives worker returned and the merge removed
C15_Witness ==
    /\ job.pc = "done"
    /\ Len(job.fields) = 2
    /\ job.primitives_result # <<>>
    /\ job.result.primitives = <<>>
    /\ job.result.compounds # <<>>

(* ------------------------------------------------------------------ *)
(* fetch-dataset requests handled by two threads of the server         *)
(* ------------------------------------------------------------------ *)

\* what a step of a handler writes besides the tables, the response and
\* pending
HandlerStep == UNCHANGED <<remote, outbound, schemas, checked, verdict, files,
                           messages, job>>

TablesUnchanged == UNCHANGED <<reviews, metadatablocks, compounds, fields,
                               nextId>>

\* a handler takes a request up to the test of line 62: it answers 400, or
\* answers with the Review of the DOI, or goes on to load the dataset
Receive(h, site_url, doi) ==
    /\ pending[h].pc = "idle"
    /\ IF site_url = Absent \/ doi = Absent \/ Len(reviews_by_doi(doi)) > 0
          THEN /\ response' = fetch_dataset(site_url, doi).response
               /\ request' = [op |-> "fetch", site_url |-> site_url,
                              doi |-> doi, id |-> NoId]
               /\ UNCHANGED pending
       ELSE /\ pending' = [pending EXCEPT
                              ![h] = [pc |-> "load_dataset",
                                      site_url |-> site_url, doi |-> doi]]
            /\ UNCHANGED <<request, response>>
    /\ TablesUnchanged
    /\ HandlerStep

\* dataverse.load_dataset(pid=doi, download_files=False)
LoadDataset(h) ==
    /\ pending[h].pc = "load_dataset"
    /\ IF remote[pending[h].doi] = NoDataset
          THEN /\ pending' = [pending EXCEPT ![h] = NoPending[h]]
               /\ request' = [op |-> "fetch", site_url |-> pending[h].site_url,
                              doi |-> pending[h].doi, id |-> NoId]
               /\ response' = Response(500, NoId, 0, 0, <<>>)
       ELSE /\ pending' = [pending EXCEPT ![h].pc = "create"]
            /\ UNCHANGED <<request, response>>
    /\ TablesUnchanged
    /\ HandlerStep

\* the Review row, the loop over the blocks and the response
Ingest(h) ==
    /\ pending[h].pc = "create"
    /\ LET out == ingest_dataset(pending[h].site_url, pending[h].doi) IN
          /\ reviews' = out.db.reviews
          /\ metadatablocks' = out.db.metadatablocks
          /\ compounds' = out.db.compounds
          /\ fields' = out.db.fields
          /\ nextId' = out.db.nextId
          /\ response' = out.response
    /\ request' = [op |-> "fetch", site_url |-> pending[h].site_url,
                   doi |-> pending[h].doi, id |-> NoId]
    /\ pending' = [pending EXCEPT ![h] = NoPending[h]]
    /\ HandlerStep

InitRace ==
    /\ reviews = <<>>
    /\ metadatablocks = <<>>
    /\ compounds = <<>>
    /\ fields = <<>>
    /\ files = <<>>
    /\ messages = <<>>
    /\ pending = NoPending
    /\ job = NoJob
    /\ nextId = 1
    /\ remote \in {r \in [DOIs -> Datasets \cup {NoDataset}] :
                      /\ r["doi:10/A"] \in OpenDatasets
                      /\ r["doi:10/B"] \in SmallDatasets \cup {NoDataset}}
    /\ request = NoRequest
    /\ response = NoResponse
    /\ outbound = <<>>
    /\ schemas = <<>>
    /\ checked = PyNone
    /\ verdict = NotCalled

NextRace ==
    \E h \in Handlers :
        \/ \E site_url \in {"https://dv.org/", Absent}, doi \in DOIs :
              Receive(h, site_url, doi)
        \/ LoadDataset(h)
        \/ Ingest(h)

SpecRace == InitRace /\ [][NextRace]_vars

\* C16: no DOI has two Review rows, also when two fetch-dataset requests
\* for it interleave between the test for a Review and the insert.
C16_OneReviewPerDoi ==
    \A d \in DOIs :
        Cardinality({i \in 1..Len(reviews) : reviews[i].doi = d}) <= 1

====
